---------------------------- MODULE Spec2Model ----------------------------
(***************************************************************************)
(* A model of source/common/json/json_loader.cc: the typed, read-only      *)
(* view (ObjectImplBase) over a parsed rapidjson document, the root holder *)
(* (ObjectImplRoot) that owns the document's storage, and the two loaders  *)
(* (Factory::LoadFromFile, Factory::LoadFromString).                       *)
(*                                                                         *)
(* Three specifications are given.  SpecAcc applies every accessor to      *)
(* views of documents drawn from a bounded universe and records the        *)
(* outcome.  SpecHash hashes views of two loaded documents.  Spec is the   *)
(* life-cycle machine: loading, creating views, releasing views and root   *)
(* holders, and using views.                                               *)
(***************************************************************************)
EXTENDS Integers, Sequences, FiniteSets, TLC

VARIABLES
  holders,  \* holder id -> [state, root_]: the ObjectImplRoot objects and their rapidjson::Document
  views,    \* the ObjectPtr handles the caller currently holds (Spec)
  this,     \* the receiver of the accessor calls (SpecAcc)
  call,     \* the last operation invoked and its arguments
  ret       \* the outcome of the last operation: a returned value or a thrown exception

vars == <<holders, views, this, call, ret>>

(***************************************************************************)
(* Bounds of the model.                                                    *)
(***************************************************************************)
MaxMembers == 2   \* members of an object of the document universe
MaxElems == 2     \* elements of an array of the document universe
MaxDocs == 2      \* root holders loaded during one run of Spec
MaxViews == 1     \* non-root views held at the same time in Spec
HashBits == 3     \* width of the model's std::hash (the program's is 64 bits wide)

(***************************************************************************)
(* rapidjson::Value: the document tree node.  A number carries the tag the *)
(* parser gave it: "int64" (kInt64Flag: an integer literal that fits       *)
(* int64_t), "uint64" (an integer literal above INT64_MAX, which has       *)
(* kUint64Flag only; n counts from INT64_MAX) or "double" (kDoubleFlag; n  *)
(* is the value in tenths).  The strings of the model (keys, string        *)
(* values, texts) hold no U+0000: the code hands strings over as const     *)
(* char* (name.c_str(), GetString()), which carries such a string whole    *)
(* and would cut any other at its first U+0000.                            *)
(***************************************************************************)
Null == [type |-> "null"]
Bool(b) == [type |-> "bool", b |-> b]
Int64(n) == [type |-> "number", tag |-> "int64", n |-> n]
Uint64(n) == [type |-> "number", tag |-> "uint64", n |-> n]
Double(n) == [type |-> "number", tag |-> "double", n |-> n]
String(s) == [type |-> "string", s |-> s]
Array(es) == [type |-> "array", elems |-> es]
Obj(ms) == [type |-> "object", members |-> ms]
Member(k, v) == [name |-> k, value |-> v]

IsBool(v) == v.type = "bool"
IsInt64(v) == v.type = "number" /\ v.tag = "int64"
IsDouble(v) == v.type = "number" /\ v.tag = "double"
IsString(v) == v.type = "string"
IsArray(v) == v.type = "array"
IsObject(v) == v.type = "object"

\* Value::MemberEnd(): the position one past the last member.
MemberEnd(v) == Len(v.members) + 1

\* Value::FindMember(name): the position of the first member named name, or MemberEnd().
FindMember(v, name) ==
  LET hits == {i \in 1..Len(v.members) : v.members[i].name = name}
  IN IF hits = {} THEN MemberEnd(v) ELSE CHOOSE i \in hits : \A j \in hits : i <= j

\* Value::HasMember(name).
HasMember(v, name) == FindMember(v, name) # MemberEnd(v)

\* Value::ObjectEmpty().
ObjectEmpty(v) == Len(v.members) = 0

(***************************************************************************)
(* Outcomes of a call: a returned value, or a thrown exception with the    *)
(* format string of its message and the arguments formatted into it.       *)
(* Names are sequences of string pieces, so that name + " (array item)"    *)
(* is Append(name, " (array item)").                                       *)
(***************************************************************************)
Exception(fmt, args) == [kind |-> "throw", type |-> "Json::Exception", fmt |-> fmt, args |-> args]
ParseException(offset, message) ==
  [kind |-> "throw", type |-> "Json::Exception", fmt |-> "Error(offset {}): {}\n",
   offset |-> offset, message |-> message]
InvalidArgument(offset, message) ==
  [kind |-> "throw", type |-> "std::invalid_argument",
   fmt |-> "invalid schema \n Error(offset {}) : {}\n", offset |-> offset, message |-> message]
RetBool(b) == [kind |-> "bool", b |-> b]
RetInt(n) == [kind |-> "int64_t", i |-> n]
RetDouble(n) == [kind |-> "double", d |-> n]
RetString(s) == [kind |-> "string", s |-> s]
RetStrings(ss) == [kind |-> "strings", ss |-> ss]
RetView(v) == [kind |-> "view", view |-> v]
RetViews(vs) == [kind |-> "views", list |-> vs]
RetVoid == [kind |-> "void"]
NoCall == [op |-> "none"]
NoRet == [kind |-> "none"]


(***************************************************************************)
(* ObjectImplBase: a (name_, value_) pair.  value_ is a reference, modelled*)
(* as the address of a node: the storage that holds it (owner: a root      *)
(* holder's id, or Static for the class-static empty_rapid_json_value_)    *)
(* and the path of member/element positions from that storage's top value. *)
(***************************************************************************)
Static == 0

ObjectImplBase(owner, path, name) == [owner |-> owner, path |-> path, name |-> name]

\* const rapidjson::Value ObjectImplBase::empty_rapid_json_value_(rapidjson::kObjectType)
empty_rapid_json_value_ == Obj(<<>>)

\* The child of node v at position i: a member's value or an array element.
Child(v, i) == IF IsObject(v) THEN v.members[i].value ELSE v.elems[i]

RECURSIVE NodeAt(_, _)
NodeAt(v, path) == IF path = <<>> THEN v ELSE NodeAt(Child(v, Head(path)), Tail(path))

\* Whether path names a node of the tree v.
RECURSIVE HasNode(_, _)
HasNode(v, path) ==
  IF path = <<>> THEN TRUE
  ELSE LET n == IF IsObject(v) THEN Len(v.members) ELSE IF IsArray(v) THEN Len(v.elems) ELSE 0
       IN Head(path) \in 1..n /\ HasNode(Child(v, Head(path)), Tail(path))

\* The node a view's value_ refers to, while the storage that holds it exists.
Value(o) == IF o.owner = Static THEN empty_rapid_json_value_
            ELSE NodeAt(holders[o.owner].root_, o.path)

\* A reference to member i's value / element i of the node o refers to.
ChildRef(o, i) == Append(o.path, i)

asObjectArray(o) ==
  IF ~IsArray(Value(o)) THEN Exception("'{}' is not an array", <<o.name>>)
  ELSE RetViews([i \in 1..Len(Value(o).elems) |->
                   ObjectImplBase(o.owner, ChildRef(o, i), Append(o.name, " (array item)"))])

getBoolean(o, name) ==
  LET member_itr == FindMember(Value(o), name)
  IN IF member_itr = MemberEnd(Value(o)) \/ ~IsBool(Value(o).members[member_itr].value)
     THEN Exception("key '{}' missing or not a boolean in '{}'", <<<<name>>, o.name>>)
     ELSE RetBool(Value(o).members[member_itr].value.b)

\* getBoolean(name, default) with the default given for a member of another type too.
getBooleanDefault_OnMismatch(o, name, default_value) ==
  IF ~HasMember(Value(o), name) \/ ~IsBool(Value(o).members[FindMember(Value(o), name)].value)
  THEN RetBool(default_value) ELSE getBoolean(o, name)

getBooleanDefault(o, name, default_value) ==
  IF ~HasMember(Value(o), name) THEN RetBool(default_value) ELSE getBoolean(o, name)

\* getInteger with IsNumber in the place of IsInt64.
getInteger_AnyNumber(o, name) ==
  LET member_itr == FindMember(Value(o), name)
  IN IF member_itr = MemberEnd(Value(o)) \/ Value(o).members[member_itr].value.type # "number"
     THEN Exception("key '{}' missing or not an integer in '{}'", <<<<name>>, o.name>>)
     ELSE RetInt(Value(o).members[member_itr].value.n)

getInteger(o, name) ==
  LET member_itr == FindMember(Value(o), name)
  IN IF member_itr = MemberEnd(Value(o)) \/ ~IsInt64(Value(o).members[member_itr].value)
     THEN Exception("key '{}' missing or not an integer in '{}'", <<<<name>>, o.name>>)
     ELSE RetInt(Value(o).members[member_itr].value.n)

getIntegerDefault(o, name, default_value) ==
  IF ~HasMember(Value(o), name) THEN RetInt(default_value) ELSE getInteger(o, name)

\* getObject without the branch for an absent key: the end iterator is dereferenced.
getObject_NoEmptyBranch(o, name, allow_empty) ==
  LET member_itr == FindMember(Value(o), name)
  IN IF member_itr = MemberEnd(Value(o)) /\ ~allow_empty
     THEN Exception("key '{}' missing or not an integer in '{}'", <<<<name>>, o.name>>)
     ELSE RetView(ObjectImplBase(o.owner, ChildRef(o, member_itr), <<name>>))

\* getObject with a type check: a member that is not an object is refused.
getObject_ObjectsOnly(o, name, allow_empty) ==
  LET member_itr == FindMember(Value(o), name)
  IN IF member_itr = MemberEnd(Value(o)) /\ ~allow_empty
     THEN Exception("key '{}' missing or not an integer in '{}'", <<<<name>>, o.name>>)
     ELSE IF member_itr = MemberEnd(Value(o))
     THEN RetView(ObjectImplBase(Static, <<>>, <<name>>))
     ELSE IF ~IsObject(Value(o).members[member_itr].value)
     THEN Exception("key '{}' missing or not an integer in '{}'", <<<<name>>, o.name>>)
     ELSE RetView(ObjectImplBase(o.owner, ChildRef(o, member_itr), <<name>>))

getObject(o, name, allow_empty) ==
  LET member_itr == FindMember(Value(o), name)
  IN IF member_itr = MemberEnd(Value(o)) /\ ~allow_empty
     THEN Exception("key '{}' missing or not an integer in '{}'", <<<<name>>, o.name>>)
     ELSE IF member_itr = MemberEnd(Value(o))
     THEN RetView(ObjectImplBase(Static, <<>>, <<name>>))
     ELSE RetView(ObjectImplBase(o.owner, ChildRef(o, member_itr), <<name>>))

getObjectArray(o, name) ==
  LET member_itr == FindMember(Value(o), name)
  IN IF member_itr = MemberEnd(Value(o)) \/ ~IsArray(Value(o).members[member_itr].value)
     THEN Exception("key '{}' missing or not a array in '{}'", <<<<name>>, o.name>>)
     ELSE RetViews([i \in 1..Len(Value(o).members[member_itr].value.elems) |->
                      ObjectImplBase(o.owner, Append(ChildRef(o, member_itr), i),
                                     <<name, " (array item)">>)])

getString(o, name) ==
  LET member_itr == FindMember(Value(o), name)
  IN IF member_itr = MemberEnd(Value(o)) \/ ~IsString(Value(o).members[member_itr].value)
     THEN Exception("key '{}' missing or not a string in '{}'", <<<<name>>, o.name>>)
     ELSE RetString(Value(o).members[member_itr].value.s)

getStringDefault(o, name, default_value) ==
  IF ~HasMember(Value(o), name) THEN RetString(default_value) ELSE getString(o, name)

\* The loop of getStringArray, passing over the elements that are not strings.
RECURSIVE StringArrayLoop_Skip(_, _, _, _)
StringArrayLoop_Skip(elems, i, string_array, name) ==
  IF i > Len(elems) THEN RetStrings(string_array)
  ELSE IF ~IsString(elems[i]) THEN StringArrayLoop_Skip(elems, i + 1, string_array, name)
  ELSE StringArrayLoop_Skip(elems, i + 1, Append(string_array, elems[i].s), name)

\* The loop of getStringArray over the array's elements from position i on.
RECURSIVE StringArrayLoop(_, _, _, _)
StringArrayLoop(elems, i, string_array, name) ==
  IF i > Len(elems) THEN RetStrings(string_array)
  ELSE IF ~IsString(elems[i])
  THEN Exception("array '{}' does not contain all strings", <<<<name>>>>)
  ELSE StringArrayLoop(elems, i + 1, Append(string_array, elems[i].s), name)

getStringArray(o, name) ==
  LET member_itr == FindMember(Value(o), name)
  IN IF member_itr = MemberEnd(Value(o)) \/ ~IsArray(Value(o).members[member_itr].value)
     THEN Exception("key '{}' missing or not an array in '{}'", <<<<name>>, o.name>>)
     ELSE StringArrayLoop(Value(o).members[member_itr].value.elems, 1, <<>>, name)

getDouble(o, name) ==
  LET member_itr == FindMember(Value(o), name)
  IN IF member_itr = MemberEnd(Value(o)) \/ ~IsDouble(Value(o).members[member_itr].value)
     THEN Exception("key '{}' missing or not a double in '{}'", <<<<name>>, o.name>>)
     ELSE RetDouble(Value(o).members[member_itr].value.n)

getDoubleDefault(o, name, default_value) ==
  IF ~HasMember(Value(o), name) THEN RetDouble(default_value) ELSE getDouble(o, name)

hasObject(o, name) == RetBool(HasMember(Value(o), name))

asString(o) ==
  IF ~IsString(Value(o)) THEN Exception("'{}' is not a string", <<o.name>>)
  ELSE RetString(Value(o).s)

empty(o) == RetBool(IsObject(Value(o)) /\ ObjectEmpty(Value(o)))

\* The loop of iterate without the break on need_continue.
RECURSIVE IterateLoop_NoBreak(_, _, _, _)
IterateLoop_NoBreak(o, callback, i, log) ==
  IF i > Len(Value(o).members) THEN log
  ELSE LET member == Value(o).members[i]
           object == ObjectImplBase(o.owner, ChildRef(o, i), <<member.name>>)
       IN IterateLoop_NoBreak(o, callback, i + 1, Append(log, [name |-> member.name, object |-> object]))

\* The loop of iterate from member i on; callback[c] is what the c-th invocation of
\* the callback returns, and log the invocations made so far.
RECURSIVE IterateLoop(_, _, _, _)
IterateLoop(o, callback, i, log) ==
  IF i > Len(Value(o).members) THEN log
  ELSE LET member == Value(o).members[i]
           object == ObjectImplBase(o.owner, ChildRef(o, i), <<member.name>>)
           log2 == Append(log, [name |-> member.name, object |-> object])
           need_continue == callback[Len(log2)]
       IN IF ~need_continue THEN log2 ELSE IterateLoop(o, callback, i + 1, log2)

iterate(o, callback) == [kind |-> "void", calls |-> IterateLoop(o, callback, 1, <<>>)]


(***************************************************************************)
(* hash(): rapidjson::Writer's compact text of the subtree, then           *)
(* std::hash<std::string> of that text.  The text is a sequence of         *)
(* characters; a string's content is one piece of it.                      *)
(***************************************************************************)
Digit(n) == <<"0", "1", "2", "3", "4", "5", "6", "7", "8", "9">>[n + 1]

RECURSIVE Digits(_)
Digits(n) == IF n < 10 THEN <<Digit(n)>> ELSE Digits(n \div 10) \o <<Digit(n % 10)>>

\* Writer::Int64 / Writer::Uint64 / Writer::Double.
WriteNumber(v) ==
  CASE v.tag = "int64" -> IF v.n < 0 THEN <<"-">> \o Digits(-v.n) ELSE Digits(v.n)
    [] v.tag = "uint64" ->   \* INT64_MAX + n = 922337203685477580(7 + n)
         <<"9", "2", "2", "3", "3", "7", "2", "0", "3", "6", "8", "5", "4", "7", "7", "5", "8", "0">>
           \o <<Digit(7 + v.n)>>
    [] v.tag = "double" -> Digits(v.n \div 10) \o <<".">> \o <<Digit(v.n % 10)>>

\* Value::Accept(writer): the events of a depth-first walk, written without whitespace.
RECURSIVE Accept(_)
RECURSIVE AcceptMembers(_, _)
RECURSIVE AcceptElems(_, _)
Accept(v) ==
  CASE v.type = "null" -> <<"n", "u", "l", "l">>
    [] v.type = "bool" -> IF v.b THEN <<"t", "r", "u", "e">> ELSE <<"f", "a", "l", "s", "e">>
    [] v.type = "number" -> WriteNumber(v)
    [] v.type = "string" -> <<"\"", v.s, "\"">>
    [] v.type = "array" -> <<"[">> \o AcceptElems(v.elems, 1) \o <<"]">>
    [] v.type = "object" -> <<"{">> \o AcceptMembers(v.members, 1) \o <<"}">>
AcceptMembers(ms, i) ==
  IF i > Len(ms) THEN <<>>
  ELSE (IF i > 1 THEN <<",">> ELSE <<>>) \o <<"\"", ms[i].name, "\"", ":">>
         \o Accept(ms[i].value) \o AcceptMembers(ms, i + 1)
AcceptElems(es, i) ==
  IF i > Len(es) THEN <<>>
  ELSE (IF i > 1 THEN <<",">> ELSE <<>>) \o Accept(es[i]) \o AcceptElems(es, i + 1)

\* The code of a piece of text that the hash mixes in.
CharCode(c) ==
  CASE c = "{" -> 123 [] c = "}" -> 125 [] c = "[" -> 91 [] c = "]" -> 93
    [] c = ":" -> 58 [] c = "," -> 44 [] c = "\"" -> 34 [] c = "." -> 46 [] c = "-" -> 45
    [] c = "0" -> 48 [] c = "1" -> 49 [] c = "2" -> 50 [] c = "3" -> 51 [] c = "4" -> 52
    [] c = "5" -> 53 [] c = "6" -> 54 [] c = "7" -> 55 [] c = "8" -> 56 [] c = "9" -> 57
    [] c = "a" -> 97 [] c = "b" -> 98 [] c = "e" -> 101 [] c = "f" -> 102 [] c = "l" -> 108
    [] c = "n" -> 110 [] c = "r" -> 114 [] c = "s" -> 115 [] c = "t" -> 116 [] c = "u" -> 117
    [] OTHER -> 63

\* std::hash<std::string>: which function it is is left to the library; the model
\* takes a multiplicative hash of HashBits bits (the program's has 64).
RECURSIVE StdHashLoop(_, _, _)
StdHashLoop(str, i, h) ==
  IF i > Len(str) THEN h
  ELSE StdHashLoop(str, i + 1, (h * 31 + CharCode(str[i])) % (2 ^ HashBits))

StdHash(str) == StdHashLoop(str, 1, 0)

\* hash() of the reference in the place of the text.
hash_OfReference(o) == (o.owner * 31 + Len(o.path)) % (2 ^ HashBits)

hash(o) == StdHash(Accept(Value(o)))

(***************************************************************************)
(* The texts of the model and what rapidjson's parser makes of them:       *)
(* Document::Parse gives a tree, or a parse error with an offset and a     *)
(* code (shown by GetParseError_En's message).                             *)
(***************************************************************************)
ParseOk(tree) == [ok |-> TRUE, tree |-> tree]
ParseError(offset, message) == [ok |-> FALSE, offset |-> offset, message |-> message]

Parse(text) ==
  CASE text = "{\"a\":{\"b\":1}}" -> ParseOk(Obj(<<Member("a", Obj(<<Member("b", Int64(1))>>))>>))
    [] text = "{\"x\":1,\"y\":[{},\"s\"]}" ->
         ParseOk(Obj(<<Member("x", Int64(1)), Member("y", Array(<<Obj(<<>>), String("s")>>))>>))
    [] text = "" -> ParseError(0, "The document is empty.")
    [] text = "{\"a\":" -> ParseError(5, "Invalid value.")
    [] text = "{\"required\":[\"a\"]}" -> ParseOk(Obj(<<Member("required", Array(<<String("a")>>))>>))
    [] text = "{\"type\":\"object\",\"required\":[\"b\"]}" ->
         ParseOk(Obj(<<Member("type", String("object")),
                       Member("required", Array(<<String("b")>>))>>))
    [] text = "{\"type\":\"array\"}" -> ParseOk(Obj(<<Member("type", String("array"))>>))
    [] text = "{}" -> ParseOk(Obj(<<>>))
    [] text = "{\"required\":" -> ParseError(12, "Invalid value.")
    [] text = "]" -> ParseError(0, "Invalid value.")

\* The JSON Schema type names a value matches.
SchemaTypes(v) ==
  CASE v.type = "bool" -> {"boolean"}
    [] v.type = "number" -> IF v.tag = "double" THEN {"number"} ELSE {"integer", "number"}
    [] OTHER -> {v.type}

\* rapidjson::SchemaValidator on value v under the schema document s, for the keywords
\* "type" (a string) and "required": whether v conforms and, if not, the validator's
\* GetInvalidSchemaPointer, GetInvalidSchemaKeyword and GetInvalidDocumentPointer.
SchemaAccept(v, s) ==
  LET Invalid(keyword) ==
        [valid |-> FALSE, schema |-> "#", keyword |-> keyword, document |-> "#"]
      type == IF IsObject(s) /\ HasMember(s, "type")
              THEN s.members[FindMember(s, "type")].value ELSE Null
      required == IF IsObject(s) /\ HasMember(s, "required")
                  THEN s.members[FindMember(s, "required")].value ELSE Null
  IN IF IsString(type) /\ type.s \notin SchemaTypes(v) THEN Invalid("type")
     ELSE IF IsObject(v) /\ IsArray(required)
             /\ \E i \in 1..Len(required.elems) :
                  IsString(required.elems[i]) /\ ~HasMember(v, required.elems[i].s)
     THEN Invalid("required")
     ELSE [valid |-> TRUE]

\* validateSchema throwing the exception of a document violation for a schema text
\* that does not parse.
validateSchema_OneException(o, schema) ==
  LET document == Parse(schema)
  IN IF ~document.ok THEN ParseException(document.offset, document.message)
     ELSE LET schema_validator == SchemaAccept(Value(o), document.tree)
          IN IF ~schema_validator.valid
             THEN Exception("JSON object doesn't conform to schema.\n Invalid schema: {}.\n Invalid keyword: {}.\n Invalid document key: {}",
                            <<<<schema_validator.schema>>, <<schema_validator.keyword>>,
                              <<schema_validator.document>>>>)
             ELSE RetVoid

validateSchema(o, schema) ==
  LET document == Parse(schema)
  IN IF ~document.ok THEN InvalidArgument(document.offset, document.message)
     ELSE LET schema_validator == SchemaAccept(Value(o), document.tree)
          IN IF ~schema_validator.valid
             THEN Exception("JSON object doesn't conform to schema.\n Invalid schema: {}.\n Invalid keyword: {}.\n Invalid document key: {}",
                            <<<<schema_validator.schema>>, <<schema_validator.keyword>>,
                              <<schema_validator.document>>>>)
             ELSE RetVoid


(***************************************************************************)
(* The inputs of the model.                                                *)
(***************************************************************************)
Keys == {"a", "b"}                 \* the names members have
QueryKeys == Keys \cup {"c"}       \* the names asked for; no member is named "c"
SeqsUpTo(S, n) == UNION {[1..k -> S] : k \in 0..n}

BasicValues == {Null, Bool(TRUE), Int64(1), Uint64(1), Double(15), String("s"), Obj(<<>>)}
ElemValues == {String("s"), String("t"), Int64(1), Null, Obj(<<>>)}
HashValues == {Int64(1), String("s")}
IterValues == {Int64(1), Obj(<<>>)}

ScalarDocs == {Obj(ms) : ms \in SeqsUpTo([name : Keys, value : BasicValues], MaxMembers)}
ArrayDocs == {Obj(<<Member("a", Array(es))>>) : es \in SeqsUpTo(ElemValues, MaxElems)}
               \cup {Array(es) : es \in SeqsUpTo(ElemValues, MaxElems)}
NestedDocs == {Obj(<<Member("a", Obj(ms))>>) : ms \in SeqsUpTo([name : Keys, value : BasicValues], 1)}
HashDocs == {Obj(ms) : ms \in SeqsUpTo([name : Keys, value : HashValues], MaxMembers)}
IterDocs == {Obj(ms) : ms \in SeqsUpTo([name : Keys, value : IterValues], MaxMembers + 1)}
AccDocs == ScalarDocs \cup ArrayDocs \cup NestedDocs \cup IterDocs

SchemaTexts == {"{\"required\":[\"a\"]}", "{\"type\":\"object\",\"required\":[\"b\"]}",
                "{\"type\":\"array\"}", "{}", "{\"required\":", "]"}
Callbacks == [1..(MaxMembers + 1) -> BOOLEAN]

HolderIds == 1..MaxDocs
NoHolder == [state |-> "none", root_ |-> Null]
Live(tree) == [state |-> "live", root_ |-> tree]
RootView(h) == ObjectImplBase(h, <<>>, <<"root">>)

\* What rapidjson does when a member accessor is used on a value that is not an
\* object: RAPIDJSON_ASSERT(IsObject()) aborts, or with assertions compiled out the
\* behaviour is undefined.
UndefinedOutcomes == {[kind |-> "abort"], [kind |-> "undefined"]}

(***************************************************************************)
(* SpecAcc: after a successful load the caller applies accessors to the    *)
(* view it holds (this), one call at a time, and may go on with a view an  *)
(* accessor returned.                                                      *)
(***************************************************************************)
InitAcc ==
  /\ \E d \in AccDocs : holders = [h \in HolderIds |-> IF h = 1 THEN Live(d) ELSE NoHolder]
  /\ views = {}
  /\ this = RootView(1)
  /\ call = NoCall
  /\ ret = NoRet

\* The outcomes of a member accessor that returns r on an object: FindMember,
\* HasMember and GetObject need value_ to be an object.
MemberOutcomes(o, r) == IF IsObject(Value(o)) THEN {r} ELSE UndefinedOutcomes

Call_getBoolean ==
  \E k \in QueryKeys :
    /\ call = NoCall
    /\ call' = [op |-> "getBoolean", name |-> k]
    /\ ret' \in MemberOutcomes(this, getBoolean(this, k))
    /\ UNCHANGED <<holders, views, this>>

Call_getBooleanDefault ==
  \E k \in QueryKeys, d \in BOOLEAN :
    /\ call = NoCall
    /\ call' = [op |-> "getBooleanDefault", name |-> k, dflt_b |-> d]
    /\ ret' \in MemberOutcomes(this, getBooleanDefault(this, k, d))
    /\ UNCHANGED <<holders, views, this>>

Call_getInteger ==
  \E k \in QueryKeys :
    /\ call = NoCall
    /\ call' = [op |-> "getInteger", name |-> k]
    /\ ret' \in MemberOutcomes(this, getInteger(this, k))
    /\ UNCHANGED <<holders, views, this>>

Call_getIntegerDefault ==
  \E k \in QueryKeys, d \in {7} :
    /\ call = NoCall
    /\ call' = [op |-> "getIntegerDefault", name |-> k, dflt_i |-> d]
    /\ ret' \in MemberOutcomes(this, getIntegerDefault(this, k, d))
    /\ UNCHANGED <<holders, views, this>>

Call_getDouble ==
  \E k \in QueryKeys :
    /\ call = NoCall
    /\ call' = [op |-> "getDouble", name |-> k]
    /\ ret' \in MemberOutcomes(this, getDouble(this, k))
    /\ UNCHANGED <<holders, views, this>>

Call_getDoubleDefault ==
  \E k \in QueryKeys, d \in {25} :
    /\ call = NoCall
    /\ call' = [op |-> "getDoubleDefault", name |-> k, dflt_d |-> d]
    /\ ret' \in MemberOutcomes(this, getDoubleDefault(this, k, d))
    /\ UNCHANGED <<holders, views, this>>

Call_getString ==
  \E k \in QueryKeys :
    /\ call = NoCall
    /\ call' = [op |-> "getString", name |-> k]
    /\ ret' \in MemberOutcomes(this, getString(this, k))
    /\ UNCHANGED <<holders, views, this>>

Call_getStringDefault ==
  \E k \in QueryKeys, d \in {"dflt"} :
    /\ call = NoCall
    /\ call' = [op |-> "getStringDefault", name |-> k, dflt_s |-> d]
    /\ ret' \in MemberOutcomes(this, getStringDefault(this, k, d))
    /\ UNCHANGED <<holders, views, this>>

Call_getObject ==
  \E k \in QueryKeys, allow_empty \in BOOLEAN :
    /\ call = NoCall
    /\ call' = [op |-> "getObject", name |-> k, allow_empty |-> allow_empty]
    /\ ret' \in MemberOutcomes(this, getObject(this, k, allow_empty))
    /\ UNCHANGED <<holders, views, this>>

Call_getObjectArray ==
  \E k \in QueryKeys :
    /\ call = NoCall
    /\ call' = [op |-> "getObjectArray", name |-> k]
    /\ ret' \in MemberOutcomes(this, getObjectArray(this, k))
    /\ UNCHANGED <<holders, views, this>>

Call_getStringArray ==
  \E k \in QueryKeys :
    /\ call = NoCall
    /\ call' = [op |-> "getStringArray", name |-> k]
    /\ ret' \in MemberOutcomes(this, getStringArray(this, k))
    /\ UNCHANGED <<holders, views, this>>

Call_hasObject ==
  \E k \in QueryKeys :
    /\ call = NoCall
    /\ call' = [op |-> "hasObject", name |-> k]
    /\ ret' \in MemberOutcomes(this, hasObject(this, k))
    /\ UNCHANGED <<holders, views, this>>

Call_iterate ==
  \E callback \in Callbacks :
    /\ call = NoCall
    /\ call' = [op |-> "iterate", callback |-> callback]
    /\ ret' \in MemberOutcomes(this, iterate(this, callback))
    /\ UNCHANGED <<holders, views, this>>

Call_asObjectArray ==
  /\ call = NoCall
  /\ call' = [op |-> "asObjectArray"]
  /\ ret' = asObjectArray(this)
  /\ UNCHANGED <<holders, views, this>>

Call_asString ==
  /\ call = NoCall
  /\ call' = [op |-> "asString"]
  /\ ret' = asString(this)
  /\ UNCHANGED <<holders, views, this>>

Call_empty ==
  /\ call = NoCall
  /\ call' = [op |-> "empty"]
  /\ ret' = empty(this)
  /\ UNCHANGED <<holders, views, this>>

Call_validateSchema ==
  \E schema \in SchemaTexts :
    /\ call = NoCall
    /\ call' = [op |-> "validateSchema", schema |-> schema]
    /\ ret' = validateSchema(this, schema)
    /\ UNCHANGED <<holders, views, this>>

\* The views of holder h's document the caller can have got: the root view and the
\* views getObject gives for its members.
ViewsOf(h) ==
  {RootView(h)} \cup
  (IF IsObject(holders[h].root_)
   THEN {getObject(RootView(h), k, FALSE).view : k \in {k \in Keys : HasMember(holders[h].root_, k)}}
   ELSE {})

\* hash() of this view and of another view the caller holds.
Call_hash == \E h \in HolderIds :
  /\ holders[h].state = "live"
  /\ \E other \in ViewsOf(h) :
       /\ call = NoCall
       /\ call' = [op |-> "hash", other |-> other]
       /\ ret' = [kind |-> "uint64_t", hash |-> hash(this), hash_other |-> hash(other)]
       /\ UNCHANGED <<holders, views, this>>

\* The caller goes on with a view the last call returned (or passed to its callback).
Enter ==
  /\ \/ ret.kind = "view" /\ this' = ret.view
     \/ ret.kind = "views" /\ \E i \in 1..Len(ret.list) : this' = ret.list[i]
     \/ ret.kind = "void" /\ call.op = "iterate" /\ \E i \in 1..Len(ret.calls) : this' = ret.calls[i].object
  /\ call' = NoCall
  /\ ret' = NoRet
  /\ UNCHANGED <<holders, views>>

\* The caller has taken the outcome of the last call.
Return ==
  /\ call # NoCall
  /\ call' = NoCall
  /\ ret' = NoRet
  /\ UNCHANGED <<holders, views, this>>

NextAcc ==
  \/ Call_getBoolean \/ Call_getBooleanDefault
  \/ Call_getInteger \/ Call_getIntegerDefault
  \/ Call_getDouble \/ Call_getDoubleDefault
  \/ Call_getString \/ Call_getStringDefault
  \/ Call_getObject \/ Call_getObjectArray \/ Call_getStringArray
  \/ Call_hasObject \/ Call_iterate
  \/ Call_asObjectArray \/ Call_asString \/ Call_empty
  \/ Call_validateSchema
  \/ Enter \/ Return

SpecAcc == InitAcc /\ [][NextAcc]_vars

(***************************************************************************)
(* SpecHash: two documents are loaded and the caller hashes two views,     *)
(* of the same or of different documents.                                  *)
(***************************************************************************)
InitHash ==
  /\ \E d1, d2 \in HashDocs :
       holders = [h \in HolderIds |-> IF h = 1 THEN Live(d1) ELSE IF h = 2 THEN Live(d2) ELSE NoHolder]
  /\ views = {}
  /\ this = RootView(1)
  /\ call = NoCall
  /\ ret = NoRet

NextHash == Call_hash \/ Call_getObject \/ Enter \/ Return

SpecHash == InitHash /\ [][NextHash]_vars


(***************************************************************************)
(* The claims about the accessors (SpecAcc).  What a claim expects is      *)
(* stated from the document alone: Present and FirstNamed do not use the   *)
(* accessors' lookups.                                                     *)
(***************************************************************************)
Present(v, k) == \E i \in 1..Len(v.members) : v.members[i].name = k
FirstNamed(v, k) ==
  v.members[CHOOSE i \in 1..Len(v.members) :
              v.members[i].name = k /\ \A j \in 1..(i - 1) : v.members[j].name # k].value
Fails(r) == r.kind = "throw" /\ r.type = "Json::Exception"

\* The tag each strict accessor asks for, and the value it returns from a member m.
OwnTag(op, m) ==
  CASE op \in {"getBoolean", "getBooleanDefault"} -> m.type = "bool"
    [] op \in {"getInteger", "getIntegerDefault"} -> m.type = "number" /\ m.tag = "int64"
    [] op \in {"getDouble", "getDoubleDefault"} -> m.type = "number" /\ m.tag = "double"
    [] op \in {"getString", "getStringDefault"} -> m.type = "string"
OwnValue(op, m) ==
  CASE op \in {"getBoolean", "getBooleanDefault"} -> RetBool(m.b)
    [] op \in {"getInteger", "getIntegerDefault"} -> RetInt(m.n)
    [] op \in {"getDouble", "getDoubleDefault"} -> RetDouble(m.n)
    [] op \in {"getString", "getStringDefault"} -> RetString(m.s)
DefaultOf(c) ==
  CASE c.op = "getBooleanDefault" -> RetBool(c.dflt_b)
    [] c.op = "getIntegerDefault" -> RetInt(c.dflt_i)
    [] c.op = "getDoubleDefault" -> RetDouble(c.dflt_d)
    [] c.op = "getStringDefault" -> RetString(c.dflt_s)

\* C1: a strict accessor get*(k) on an object view returns the member's value exactly
\* when k is present and the (first) member named k carries the accessor's own tag,
\* and throws in every other case: nothing is coerced from another kind.
Thm_C1_StrictAccessors ==
  (call.op \in {"getBoolean", "getInteger", "getDouble", "getString"} /\ IsObject(Value(this))) =>
    IF Present(Value(this), call.name) /\ OwnTag(call.op, FirstNamed(Value(this), call.name))
    THEN ret = OwnValue(call.op, FirstNamed(Value(this), call.name))
    ELSE Fails(ret)

\* getInteger was asked for a member that is present and float-tagged, and threw.
Wit_C1_IntegerOnDouble ==
  /\ call.op = "getInteger" /\ IsObject(Value(this))
  /\ Present(Value(this), call.name)
  /\ FirstNamed(Value(this), call.name) = Double(15)
  /\ Fails(ret)

\* C2: a defaulted accessor get*(k, d) returns d when k is absent; when k is present it
\* returns the member's value if the tag matches and throws if it does not, and so
\* never answers a present member of another type with the default.
Thm_C2_DefaultedAccessors ==
  (call.op \in {"getBooleanDefault", "getIntegerDefault", "getDoubleDefault", "getStringDefault"}
     /\ IsObject(Value(this))) =>
    IF ~Present(Value(this), call.name) THEN ret = DefaultOf(call)
    ELSE IF OwnTag(call.op, FirstNamed(Value(this), call.name))
    THEN ret = OwnValue(call.op, FirstNamed(Value(this), call.name))
    ELSE Fails(ret)

\* getBoolean(k, d) was asked for a member that is present and not a boolean, and threw.
Wit_C2_DefaultOnWrongType ==
  /\ call.op = "getBooleanDefault" /\ IsObject(Value(this))
  /\ Present(Value(this), call.name)
  /\ FirstNamed(Value(this), call.name).type = "string"
  /\ Fails(ret)

\* C5: getObject(k, allowEmpty) on an object view throws when k is absent and
\* allowEmpty is false; returns a view that is empty() and that iterate visits no
\* member of when k is absent and allowEmpty is true; and returns a view of the
\* (first) member named k, of whatever kind, when k is present.
Thm_C5_GetObjectOutcomes ==
  (call.op = "getObject" /\ IsObject(Value(this))) =>
    IF ~Present(Value(this), call.name)
    THEN IF ~call.allow_empty THEN Fails(ret)
         ELSE /\ ret.kind = "view"
              /\ empty(ret.view) = RetBool(TRUE)
              /\ \A callback \in Callbacks : iterate(ret.view, callback).calls = <<>>
    ELSE /\ ret.kind = "view"
         /\ ret.view.owner = this.owner
         /\ Value(ret.view) = FirstNamed(Value(this), call.name)

\* getObject(k, true) was asked for an absent key on a view with members, and returned a view.
Wit_C5_EmptyForAbsent ==
  /\ call.op = "getObject" /\ IsObject(Value(this))
  /\ Len(Value(this).members) > 0
  /\ ~Present(Value(this), call.name) /\ call.allow_empty
  /\ ret.kind = "view"

\* C6: iterate on an object view with members m1..mn calls the callback on m1..mj in
\* this order, each once, where j is the first position at which the callback returns
\* stop (n if it never does), and on no member after that.
Thm_C6_IteratePrefix ==
  (call.op = "iterate" /\ IsObject(Value(this))) =>
    LET n == Len(Value(this).members)
        stops == {i \in 1..n : ~call.callback[i]}
        j == IF stops = {} THEN n ELSE CHOOSE i \in stops : \A i2 \in stops : i <= i2
    IN /\ Len(ret.calls) = j
       /\ \A i \in 1..j :
            /\ ret.calls[i].name = Value(this).members[i].name
            /\ ret.calls[i].object.owner = this.owner
            /\ ret.calls[i].object.path = Append(this.path, i)

\* iterate over three members was stopped by the callback at the second.
Wit_C6_StoppedEarly ==
  /\ call.op = "iterate" /\ IsObject(Value(this))
  /\ Len(Value(this).members) = 3
  /\ call.callback[1] /\ ~call.callback[2]
  /\ Len(ret.calls) = 2

\* C8: getStringArray(k) on an object view returns the elements in order, as many as
\* the array has, exactly when k is present, an array, and every element a string; an
\* array with an element that is not a string makes it throw an error whose message
\* differs from the one for k absent or not an array.
Thm_C8_GetStringArray ==
  (call.op = "getStringArray" /\ IsObject(Value(this))) =>
    LET isArray == Present(Value(this), call.name)
                     /\ FirstNamed(Value(this), call.name).type = "array"
        elems == FirstNamed(Value(this), call.name).elems
    IN IF ~isArray
       THEN Fails(ret) /\ ret.fmt = "key '{}' missing or not an array in '{}'"
       ELSE IF \E i \in 1..Len(elems) : elems[i].type # "string"
       THEN Fails(ret) /\ ret.fmt # "key '{}' missing or not an array in '{}'"
       ELSE ret = RetStrings([i \in 1..Len(elems) |-> elems[i].s])

\* getStringArray was asked for an array whose first element is a string and whose
\* second is not, and threw.
Wit_C8_MixedArray ==
  /\ call.op = "getStringArray" /\ IsObject(Value(this))
  /\ Present(Value(this), call.name)
  /\ FirstNamed(Value(this), call.name) = Array(<<String("s"), Int64(1)>>)
  /\ Fails(ret)

\* Whether value v conforms to the schema of each text of SchemaTexts that parses.
Conforms(v, schema) ==
  CASE schema = "{\"required\":[\"a\"]}" -> ~IsObject(v) \/ Present(v, "a")
    [] schema = "{\"type\":\"object\",\"required\":[\"b\"]}" -> IsObject(v) /\ Present(v, "b")
    [] schema = "{\"type\":\"array\"}" -> IsArray(v)
    [] schema = "{}" -> TRUE

\* C10: validateSchema(schemaText) throws std::invalid_argument (not the exception of a
\* document violation) when schemaText does not parse; throws the Json exception that
\* carries the schema location, the keyword and the document location when the text
\* parses and the node does not conform; and returns when the node conforms.
Thm_C10_ValidateSchema ==
  (call.op = "validateSchema") =>
    IF call.schema \in {"{\"required\":", "]"}
    THEN ret.kind = "throw" /\ ret.type = "std::invalid_argument"
    ELSE IF ~Conforms(Value(this), call.schema)
    THEN /\ Fails(ret)
         /\ Len(ret.args) = 3
         /\ ret.args[1] = <<"#">> /\ ret.args[2] \in {<<"required">>, <<"type">>}
         /\ ret.args[3] = <<"#">>
    ELSE ret = RetVoid

\* A document without member "a" was validated against a schema requiring "a".
Wit_C10_RequiredMissing ==
  /\ call.op = "validateSchema" /\ call.schema = "{\"required\":[\"a\"]}"
  /\ IsObject(Value(this)) /\ ~Present(Value(this), "a")
  /\ Fails(ret) /\ ret.args[2] = <<"required">>


(***************************************************************************)
(* Spec: the life cycle.  The caller loads documents, gets views from      *)
(* views, uses them, and releases views and roots in any order.  A view    *)
(* holds a reference into its root holder's storage and no share in it:    *)
(* releasing the root destroys the storage whatever views exist.           *)
(***************************************************************************)
SpecTexts == {"{\"a\":{\"b\":1}}", "{\"x\":1,\"y\":[{},\"s\"]}", "", "{\"a\":"}
SpecKeys == {"a", "y", "c"}

\* The files of the model: whether std::ifstream can open the path, and the content.
Paths == {"/etc/envoy.json", "/etc/empty.json", "/etc/bad.json", "/nonexistent"}
FileSystem(path) ==
  CASE path = "/etc/envoy.json" -> [readable |-> TRUE, content |-> "{\"a\":{\"b\":1}}"]
    [] path = "/etc/empty.json" -> [readable |-> TRUE, content |-> ""]
    [] path = "/etc/bad.json" -> [readable |-> TRUE, content |-> "{\"a\":"]
    [] path = "/nonexistent" -> [readable |-> FALSE, content |-> ""]

\* What rapidjson::IStreamWrapper reads from std::ifstream file_stream(file_path): the
\* content, or nothing at all from a stream that failed to open.
IStreamWrapper(path) == IF FileSystem(path).readable THEN FileSystem(path).content ELSE ""

Init ==
  /\ holders = [h \in HolderIds |-> NoHolder]
  /\ views = {}
  /\ this = RootView(1)
  /\ call = NoCall
  /\ ret = NoRet

\* new ObjectImplRoot(std::move(document)): the next holder, owning the document.
ObjectImplRoot(h, document) == [holders EXCEPT ![h] = Live(document.tree)]

\* The holder a load creates: the lowest id not used yet.
FreeHolder(h) == holders[h].state = "none" /\ \A g \in 1..(h - 1) : holders[g].state # "none"

\* What a loader does once the text is at hand: throw the parse error, or wrap the
\* document in a new root holder and return its view.
LoadOutcome(document, h) ==
  IF ~document.ok THEN ParseException(document.offset, document.message)
  ELSE RetView(RootView(h))

LoadFromFile ==
  \E file_path \in Paths, h \in HolderIds :
    LET document == Parse(IStreamWrapper(file_path))
    IN /\ call = NoCall
       /\ IF document.ok THEN FreeHolder(h) ELSE h = 1
       /\ call' = [op |-> "LoadFromFile", file_path |-> file_path]
       /\ ret' = LoadOutcome(document, h)
       /\ holders' = IF document.ok THEN ObjectImplRoot(h, document) ELSE holders
       /\ UNCHANGED <<views, this>>

\* (The iterative parse with PrintHandler that comes first only prints the events.)
LoadFromString ==
  \E json \in SpecTexts, h \in HolderIds :
    LET document == Parse(json)
    IN /\ call = NoCall
       /\ IF document.ok THEN FreeHolder(h) ELSE h = 1
       /\ call' = [op |-> "LoadFromString", json |-> json]
       /\ ret' = LoadOutcome(document, h)
       /\ holders' = IF document.ok THEN ObjectImplRoot(h, document) ELSE holders
       /\ UNCHANGED <<views, this>>

\* The views the caller holds: the root view of every live holder, and the others.
Held == {RootView(h) : h \in {h \in HolderIds : holders[h].state = "live"}} \cup views

\* A view whose value_ refers into storage that has been destroyed.
Dangling(o) == o.owner # Static /\ holders[o.owner].state = "destroyed"

\* The outcomes of a call on view o that returns r.  On a dangling view the read
\* through value_ is undefined behaviour, as is a member lookup on a value that is
\* not an object.
ViewOutcomes(o, needsObject, r) ==
  IF Dangling(o) THEN UndefinedOutcomes \cup {RetBool(TRUE), RetBool(FALSE)}
  ELSE IF needsObject /\ ~IsObject(Value(o)) THEN UndefinedOutcomes
  ELSE {r}

\* The caller keeps some of the views a call returned, as far as the model has room.
Keep(returned) ==
  \E kept \in SUBSET returned :
    /\ Cardinality(views \cup kept) <= MaxViews
    /\ views' = views \cup kept

Returned(r) ==
  IF r.kind = "view" THEN {r.view}
  ELSE IF r.kind = "views" THEN {r.list[i] : i \in 1..Len(r.list)}
  ELSE {}

GetObject ==
  \E o \in Held, name \in SpecKeys, allow_empty \in BOOLEAN :
    /\ call = NoCall
    /\ call' = [op |-> "getObject", on |-> o, name |-> name, allow_empty |-> allow_empty]
    /\ ret' \in ViewOutcomes(o, TRUE, getObject(o, name, allow_empty))
    /\ Keep(Returned(ret'))
    /\ UNCHANGED <<holders, this>>

GetObjectArray ==
  \E o \in Held, name \in SpecKeys :
    /\ call = NoCall
    /\ call' = [op |-> "getObjectArray", on |-> o, name |-> name]
    /\ ret' \in ViewOutcomes(o, TRUE, getObjectArray(o, name))
    /\ Keep(Returned(ret'))
    /\ UNCHANGED <<holders, this>>

AsObjectArray ==
  \E o \in Held :
    /\ call = NoCall
    /\ call' = [op |-> "asObjectArray", on |-> o]
    /\ ret' \in ViewOutcomes(o, FALSE, asObjectArray(o))
    /\ Keep(Returned(ret'))
    /\ UNCHANGED <<holders, this>>

\* iterate: the views passed to the callback live on iterate's stack for one call each.
Iterate ==
  \E o \in Held, callback \in Callbacks :
    /\ call = NoCall
    /\ call' = [op |-> "iterate", on |-> o, callback |-> callback]
    /\ ret' \in ViewOutcomes(o, TRUE, iterate(o, callback))
    /\ UNCHANGED <<holders, views, this>>

\* A use of a view: empty().
Empty ==
  \E o \in Held :
    /\ call = NoCall
    /\ call' = [op |-> "empty", on |-> o]
    /\ ret' \in ViewOutcomes(o, FALSE, empty(o))
    /\ UNCHANGED <<holders, views, this>>

\* The caller drops a view it got from an accessor: ~ObjectImplBase.
ReleaseView == \E o \in views :
  /\ call = NoCall
  /\ views' = views \ {o}
  /\ UNCHANGED <<holders, this, call, ret>>

\* The caller drops the root: ~ObjectImplRoot destroys root_, the document's storage.
\* (root_ keeps the tree the storage held, for the record.)
ReleaseRoot == \E h \in HolderIds :
  /\ call = NoCall
  /\ holders[h].state = "live"
  /\ holders' = [holders EXCEPT ![h].state = "destroyed"]
  /\ UNCHANGED <<views, this, call, ret>>

Next ==
  \/ LoadFromFile \/ LoadFromString
  \/ GetObject \/ GetObjectArray \/ AsObjectArray \/ Iterate \/ Empty
  \/ ReleaseView \/ ReleaseRoot
  \/ Return

Spec == Init /\ [][Next]_vars


AllViews ==
  Held \cup Returned(ret)
    \cup (IF ret.kind = "void" /\ call.op = "iterate"
          THEN {ret.calls[i].object : i \in 1..Len(ret.calls)} ELSE {})

\* The node view o refers to is a node of the document holder h owns or owned.
InStorage(h, o) ==
  holders[h].state # "none" /\ o.owner = h /\ HasNode(holders[h].root_, o.path)

\* C3 as stated: no view the caller holds refers into the storage of a root holder
\* that has been destroyed.
CE_C3_NoViewOfDestroyedRoot == \A o \in views : ~Dangling(o)

\* C4 as stated: the node of every view is a node of exactly one root holder's document.
CE_C4_EveryViewInOneHolder ==
  \A o \in AllViews : Cardinality({h \in HolderIds : InStorage(h, o)}) = 1

\* C4 as amended: the node of every view is a node of exactly one root holder's
\* document (the holder the view was derived from, which may have been released
\* since), or it is the static empty object, which no root holder owns.
Thm_C4_ViewInOneHolderOrStatic ==
  \A o \in AllViews :
    IF o.owner = Static
    THEN o.path = <<>> /\ {h \in HolderIds : InStorage(h, o)} = {}
    ELSE Cardinality({h \in HolderIds : InStorage(h, o)}) = 1

\* With two documents loaded, the caller holds the view getObject(k, true) returned
\* for an absent key.
Wit_C4_StaticEmptyView ==
  /\ \A h \in {1, 2} : holders[h].state = "live"
  /\ \E o \in views : o.owner = Static

\* C7 as stated: LoadFromFile on a file that cannot be read throws an error that no
\* readable, malformed text makes the loaders throw.
CE_C7_ReadFailureIsNotParseError ==
  (call.op = "LoadFromFile" /\ ~FileSystem(call.file_path).readable) =>
    /\ ret.kind = "throw"
    /\ \A text \in SpecTexts :
         ~Parse(text).ok => ret # ParseException(Parse(text).offset, Parse(text).message)

=============================================================================
